---- MODULE Spec2Model ----
(***************************************************************************)
(* A model of src/doasd_estimation.py: the DOASD estimator (two-stage      *)
(* diagonal / off-diagonal shrinkage of the empirical covariance), the     *)
(* adaptive DOASD computation, and the RMSE metric of the evaluation.      *)
(*                                                                         *)
(* Numbers.  The program computes in float64.  A number is modelled as a   *)
(* pair <<n, d>>: with d > 0 the exact rational n/d in lowest terms, and   *)
(* with d = 0 one of the IEEE specials <<1,0>> = +inf, <<-1,0>> = -inf,    *)
(* <<0,0>> = nan, which numpy produces (with a RuntimeWarning, not an      *)
(* exception) on division by zero.  Rounding error is not modelled.        *)
(*                                                                         *)
(* Arrays.  A 2-d array is a sequence of rows.  The 0-d array that         *)
(* np.cov returns after squeeze() of a 1 x 1 result is the 1 x 1 matrix.   *)
(***************************************************************************)
EXTENDS Integers, Sequences, FiniteSets

VARIABLES
    numpy_legacy,            \* the build: numpy < 2.0 (TRUE) or numpy >= 2.0
    X_train,                 \* the sample matrix: [p |-> columns, rows |-> the n rows]
    diagonal_shrinkage,      \* DOASD.diagonal_shrinkage
    off_diagonal_shrinkage,  \* DOASD.off_diagonal_shrinkage
    covariance_,             \* DOASD.covariance_ (<<>>: attribute not set)
    fit_outcome,             \* how the last DOASD.fit call ended
    emp_cov,                 \* local emp_cov of the last fit call
    shrunk_diag_cov,         \* local shrunk_diag_cov of the last fit call
    adaptive,                \* locals and outcome of compute_rmse(X_train)
    reference,               \* the metric's first argument (true_cov)
    estimate,                \* the metric's second argument (estimated_cov)
    rmse,                    \* the metric evaluated on (reference, estimate)
    rmse_swapped,            \* the metric evaluated on (estimate, reference)
    sweep                    \* the two-parameter grid sweep: its loop and its lists

vars == <<numpy_legacy, X_train, diagonal_shrinkage, off_diagonal_shrinkage,
          covariance_, fit_outcome, emp_cov, shrunk_diag_cov, adaptive,
          reference, estimate, rmse, rmse_swapped, sweep>>

----------------------------------------------------------------------------
(* Bounds *)

\* n_features of the model (the script sets 40): the most columns a sample has
n_features == 2
\* DOASD.fit is given sample matrices of 0..MaxSamples observations
MaxSamples == 2
\* the adaptive computation is given 0..MaxSampleSize observations
MaxSampleSize == 4
\* the metric is given arrays of at most MaxEntries entries
MaxEntries == 4
\* the points of each axis of the grid sweep (the script takes 20)
GridPoints == 3

\* the values a feature takes
Vals == {0, 1}

----------------------------------------------------------------------------
(* float64 arithmetic *)

Sign(n) == IF n > 0 THEN 1 ELSE IF n < 0 THEN -1 ELSE 0

Abs(n) == IF n < 0 THEN -n ELSE n

RECURSIVE Gcd(_, _)
Gcd(a, b) == IF b = 0 THEN a ELSE Gcd(b, a % b)

\* the float n/d: lowest terms, positive denominator; x/0 is +-inf, 0/0 is nan
Frac(n, d) ==
    IF d = 0 THEN <<Sign(n), 0>>
    ELSE LET g == Gcd(Abs(n), Abs(d))
             s == Sign(d)
         IN  <<(s * n) \div g, (s * d) \div g>>

Zero   == <<0, 1>>
One    == <<1, 1>>
NaN    == <<0, 0>>
PosInf == <<1, 0>>
NegInf == <<-1, 0>>

IsFinite(a) == a[2] # 0

\* a * b; 0 * inf = nan (common factors are cancelled before multiplying)
FMul(a, b) ==
    IF a[2] = 0 \/ b[2] = 0 THEN Frac(a[1] * b[1], 0)
    ELSE LET g1 == Gcd(Abs(a[1]), b[2])
             g2 == Gcd(Abs(b[1]), a[2])
         IN  Frac((a[1] \div g1) * (b[1] \div g2), (a[2] \div g2) * (b[2] \div g1))

\* a + b; inf + -inf = nan
FAdd(a, b) ==
    IF a[2] = 0 /\ b[2] = 0 THEN (IF a = b THEN a ELSE NaN)
    ELSE IF a[2] = 0 THEN a
    ELSE IF b[2] = 0 THEN b
    ELSE LET g == Gcd(a[2], b[2])
         IN  Frac(a[1] * (b[2] \div g) + b[1] * (a[2] \div g), (a[2] \div g) * b[2])

FNeg(a) == <<-a[1], a[2]>>

\* a - b
FSub(a, b) == FAdd(a, FNeg(b))

\* a / b as float64 division: x/0 = +-inf, 0/0 = nan, x/inf = 0
FDiv(a, b) ==
    IF b[2] = 0
    THEN (IF b = NaN \/ a[2] = 0 THEN NaN ELSE Zero)
    ELSE IF b[1] = 0 THEN Frac(a[1], 0)
    ELSE FMul(a, Frac(b[2], b[1]))

\* a == b on floats: nan equals nothing, itself included
FEq(a, b) == a # NaN /\ b # NaN /\ a = b

\* a < b, a <= b on floats: false when either is nan
FLess(a, b) ==
    /\ a # NaN /\ b # NaN /\ a # b
    /\ IF a[2] = 0 THEN a = NegInf
       ELSE IF b[2] = 0 THEN b = PosInf
       ELSE a[1] * b[2] < b[1] * a[2]

FLeq(a, b) == FEq(a, b) \/ FLess(a, b)

RECURSIVE SumSeq(_)
\* np.sum / the accumulation inside dot(): the sum of a sequence of floats
SumSeq(s) == IF s = <<>> THEN Zero ELSE FAdd(s[1], SumSeq(Tail(s)))

----------------------------------------------------------------------------
(* arrays *)

\* M * s, elementwise
Scale(M, s) == [i \in 1..Len(M) |-> [j \in 1..Len(M[i]) |-> FMul(M[i][j], s)]]

\* A + B, elementwise
MatAdd(A, B) == [i \in 1..Len(A) |-> [j \in 1..Len(A[i]) |-> FAdd(A[i][j], B[i][j])]]

\* DiagOfDiag with the target of ShrunkCovariance, mu * I with mu = trace / p
DiagOfDiagScaledIdentity(M) ==
    LET mu == FDiv(SumSeq([i \in 1..Len(M) |-> M[i][i]]), Frac(Len(M), 1))
    IN  [i \in 1..Len(M) |-> [j \in 1..Len(M) |-> IF i = j THEN mu ELSE Zero]]

\* np.diag(np.diag(M)): the diagonal of M, zeros elsewhere
DiagOfDiag(M) ==
    [i \in 1..Len(M) |-> [j \in 1..Len(M) |-> IF i = j THEN M[i][i] ELSE Zero]]

\* np.sum(np.diag(M))
Trace(M) == SumSeq([i \in 1..Len(M) |-> M[i][i]])

\* np.sum(M)
SumAll(M) == SumSeq([i \in 1..Len(M) |-> SumSeq(M[i])])

\* the sample matrices of n observations of p features (shape (n, p))
SamplesOf(n, p) == {[p |-> p, rows |-> r] : r \in [1..n -> [1..p -> Vals]]}

\* what fit is given
SampleMatrices ==
    UNION {SamplesOf(n, p) : n \in 0..MaxSamples, p \in 1..n_features}

----------------------------------------------------------------------------
(* np.cov(X, rowvar=False) *)

\* the design matrix, one row per variable: X transposed, except that
\* numpy < 2.0 leaves a single-row X as it is (one variable, p observations)
Design(legacy, X) ==
    IF legacy /\ Len(X.rows) = 1
    THEN [i \in 1..1 |-> [k \in 1..X.p |-> Frac(X.rows[1][k], 1)]]
    ELSE [i \in 1..X.p |-> [k \in 1..Len(X.rows) |-> Frac(X.rows[k][i], 1)]]

\* ddof = 1: the products of the mean-subtracted rows, times 1 / (N - 1);
\* with N - 1 <= 0 the factor is set to 0.0 and the product is 0 * inf = nan
NpCov(legacy, X) ==
    LET V     == Design(legacy, X)
        nobs  == Len(V[1])
        avg   == [i \in 1..Len(V) |-> FDiv(SumSeq(V[i]), Frac(nobs, 1))]
        C     == [i \in 1..Len(V) |-> [k \in 1..nobs |-> FSub(V[i][k], avg[i])]]
        fact  == IF nobs - 1 <= 0 THEN 0 ELSE nobs - 1
        scale == FDiv(One, Frac(fact, 1))
    IN  [i \in 1..Len(V) |->
            [j \in 1..Len(V) |->
                FMul(SumSeq([k \in 1..nobs |-> FMul(C[i][k], C[j][k])]), scale)]]

\* the result was squeezed to a 0-d array, which has no shape[0]
IsZeroDim(M) == Len(M) = 1

----------------------------------------------------------------------------
(* class DOASD *)

\* Blend without its target: M * (1 - s) alone
BlendWithoutTarget(M, s) == Scale(M, FSub(One, s))

\* Blend with the two weights exchanged
BlendWeightsSwapped(M, s) == MatAdd(Scale(M, s), Scale(DiagOfDiag(M), FSub(One, s)))

\* M * (1 - s) + np.diag(np.diag(M)) * s
Blend(M, s) == MatAdd(Scale(M, FSub(One, s)), Scale(DiagOfDiag(M), s))

\* the values an instance is constructed with (the defaults are 0.5 and 0.1)
DiagonalShrinkages == {Frac(k, 10) : k \in {0, 5, 10}}
OffDiagonalShrinkages == {Frac(k, 10) : k \in {0, 1, 10}}

\* fit that also stores the combined intensity 1-(1-d)(1-o) on the instance
FitStoringIntensity ==
    /\ emp_cov' = NpCov(numpy_legacy, X_train)
    /\ IF IsZeroDim(emp_cov')
       THEN /\ fit_outcome' = "IndexError"
            /\ UNCHANGED <<covariance_, shrunk_diag_cov, diagonal_shrinkage>>
       ELSE /\ shrunk_diag_cov' = Blend(emp_cov', diagonal_shrinkage)
            /\ covariance_' = Blend(shrunk_diag_cov', off_diagonal_shrinkage)
            /\ diagonal_shrinkage' =
                   FSub(One, FMul(FSub(One, diagonal_shrinkage),
                                  FSub(One, off_diagonal_shrinkage)))
            /\ fit_outcome' = "returned"
    /\ UNCHANGED <<numpy_legacy, X_train, off_diagonal_shrinkage,
                   adaptive, reference, estimate, rmse, rmse_swapped, sweep>>

\* DOASD.fit(X_train)
Fit ==
    /\ emp_cov' = NpCov(numpy_legacy, X_train)
    /\ IF IsZeroDim(emp_cov')
       THEN /\ fit_outcome' = "IndexError"
            /\ UNCHANGED <<covariance_, shrunk_diag_cov>>
       ELSE /\ shrunk_diag_cov' = Blend(emp_cov', diagonal_shrinkage)
            /\ covariance_' = Blend(shrunk_diag_cov', off_diagonal_shrinkage)
            /\ fit_outcome' = "returned"
    /\ UNCHANGED <<numpy_legacy, X_train, diagonal_shrinkage, off_diagonal_shrinkage,
                   adaptive, reference, estimate, rmse, rmse_swapped, sweep>>

\* X_train = generate_data(n_samples, n_features)
GenerateData ==
    /\ X_train' \in SampleMatrices
    /\ UNCHANGED <<numpy_legacy, diagonal_shrinkage, off_diagonal_shrinkage,
                   covariance_, fit_outcome, emp_cov, shrunk_diag_cov,
                   adaptive, reference, estimate, rmse, rmse_swapped, sweep>>

----------------------------------------------------------------------------
(* the metric: np.sqrt(mean_squared_error(a.ravel(), b.ravel())) *)

RECURSIVE Ravel(_)
\* M.ravel(): the rows of M one after the other
Ravel(M) == IF M = <<>> THEN <<>> ELSE M[1] \o Ravel(Tail(M))

\* M as a tuple of tuples
Rows(M) == [i \in 1..Len(M) |-> [j \in 1..Len(M[i]) |-> M[i][j]]]

\* np.sqrt on a value >= 0: the root is held as its radicand (Sqrt is one-to-one)
Sqrt(q) == [sqrt_of |-> q]

\* mean_squared_error without the square: the mean of y_true - y_pred
MeanSignedError(y_true, y_pred) ==
    IF Len(y_true) # Len(y_pred) THEN [outcome |-> "ValueError"]
    ELSE IF \E k \in 1..Len(y_true) : ~IsFinite(y_true[k]) \/ ~IsFinite(y_pred[k])
    THEN [outcome |-> "ValueError"]
    ELSE [outcome |-> "returned",
          value |-> FDiv(SumSeq([k \in 1..Len(y_true) |-> FSub(y_true[k], y_pred[k])]),
                         Frac(Len(y_true), 1))]

\* sklearn.metrics.mean_squared_error(y_true, y_pred): ValueError on arrays of
\* different lengths and on nan or inf, else the mean of (y_true - y_pred)^2
MeanSquaredError(y_true, y_pred) ==
    IF Len(y_true) # Len(y_pred) THEN [outcome |-> "ValueError"]
    ELSE IF \E k \in 1..Len(y_true) : ~IsFinite(y_true[k]) \/ ~IsFinite(y_pred[k])
    THEN [outcome |-> "ValueError"]
    ELSE [outcome |-> "returned",
          value |-> FDiv(SumSeq([k \in 1..Len(y_true) |->
                                    FMul(FSub(y_true[k], y_pred[k]),
                                         FSub(y_true[k], y_pred[k]))]),
                         Frac(Len(y_true), 1))]

\* np.sqrt(mean_squared_error(A.ravel(), B.ravel()))
Rmse(A, B) ==
    LET m == MeanSquaredError(Ravel(Rows(A)), Ravel(Rows(B)))
    IN  IF m.outcome = "returned"
        THEN [outcome |-> "returned", value |-> Sqrt(m.value)]
        ELSE [outcome |-> m.outcome]

NoRmse == [outcome |-> "none"]

\* the r x c arrays the metric is given
ArraysOf(r, c) == [1..r -> [1..c -> {Frac(v, 1) : v \in Vals}]]

\* the shapes (r, c) of at most MaxEntries entries
Shapes == {sh \in (1..MaxEntries) \X (1..MaxEntries) : sh[1] * sh[2] <= MaxEntries}

Arrays == UNION {ArraysOf(sh[1], sh[2]) : sh \in Shapes}

\* rmse = np.sqrt(mean_squared_error(true_cov.ravel(), estimated_cov.ravel()))
ComputeRmse ==
    /\ rmse' = Rmse(reference, estimate)
    /\ UNCHANGED <<numpy_legacy, X_train, diagonal_shrinkage, off_diagonal_shrinkage,
                   covariance_, fit_outcome, emp_cov, shrunk_diag_cov, adaptive,
                   reference, estimate, rmse_swapped, sweep>>

\* the same metric with the two arguments exchanged
ComputeRmseSwapped ==
    /\ rmse_swapped' = Rmse(estimate, reference)
    /\ UNCHANGED <<numpy_legacy, X_train, diagonal_shrinkage, off_diagonal_shrinkage,
                   covariance_, fit_outcome, emp_cov, shrunk_diag_cov, adaptive,
                   reference, estimate, rmse, sweep>>

----------------------------------------------------------------------------
(* the adaptive DOASD computation: compute_rmse(X_train) *)

NoAdaptive == [outcome |-> "none", blended |-> FALSE]

\* what the adaptive computation is given: generate_data(n_samples, n_features)
GeneratedSamples == UNION {SamplesOf(n, n_features) : n \in 0..MaxSampleSize}

\* compute_rmse(X_train) with the global n_features
AdaptiveRmse(legacy, X) ==
    LET E         == NpCov(legacy, X)
        n_samples == Len(X.rows)
        diag_s    == FSub(One, Frac(n_features + 1, n_samples))
        off_s     == FSub(One, FDiv(Trace(E), SumAll(E)))
        D         == Blend(E, diag_s)
        S         == Blend(D, off_s)
        r         == Rmse(E, S)
    IN  IF n_samples = 0
        THEN [outcome |-> "ZeroDivisionError", blended |-> FALSE]
        ELSE IF IsZeroDim(E)
        THEN [outcome |-> "ValueError", blended |-> FALSE]
        ELSE [outcome |-> r.outcome, blended |-> TRUE,
              emp_cov |-> E, diag_shrinkage |-> diag_s, off_diag_shrinkage |-> off_s,
              shrunk_diag_cov |-> D, shrunk_cov |-> S, rmse |-> r]

\* rmse = compute_rmse(X_train)
ComputeRmseAdaptive ==
    /\ adaptive' = AdaptiveRmse(numpy_legacy, X_train)
    /\ UNCHANGED <<numpy_legacy, X_train, diagonal_shrinkage, off_diagonal_shrinkage,
                   covariance_, fit_outcome, emp_cov, shrunk_diag_cov,
                   reference, estimate, rmse, rmse_swapped, sweep>>

----------------------------------------------------------------------------
(* the two-parameter grid sweep *)

\* np.linspace(0, 1, GridPoints)
Linspace == [k \in 1..GridPoints |-> Frac(k - 1, GridPoints - 1)]

\* np.diag(M) of a 2-d array: its diagonal
Diag(M) == [i \in 1..Len(M) |-> M[i][i]]

\* sklearn empirical_covariance(X, assume_centered=True): X.T @ X / n
EmpiricalCovarianceCentered(X) ==
    LET n == Len(X.rows)
    IN  [i \in 1..X.p |->
            [j \in 1..X.p |->
                FDiv(SumSeq([k \in 1..n |-> Frac(X.rows[k][i] * X.rows[k][j], 1)]),
                     Frac(n, 1))]]

\* mu * I with mu = trace(M) / p
ScaledIdentity(M) ==
    LET mu == FDiv(Trace(M), Frac(Len(M), 1))
    IN  [i \in 1..Len(M) |-> [j \in 1..Len(M) |-> IF i = j THEN mu ELSE Zero]]

\* ShrunkCovariance(shrinkage, assume_centered=True).fit(X).covariance_
ShrunkCovarianceFit(X, shrinkage) ==
    LET E == EmpiricalCovarianceCentered(X)
    IN  MatAdd(Scale(E, FSub(One, shrinkage)), Scale(ScaledIdentity(E), shrinkage))

\* compute_shrinkage_rmse with an estimator that takes both parameters
ComputeShrinkageRmseBothUsed(true_covariance, X, diag_shrinkage, off_diag_shrinkage) ==
    LET estimated_covariance ==
            Rows(Blend(Blend(EmpiricalCovarianceCentered(X), diag_shrinkage),
                       off_diag_shrinkage))
        d == MeanSquaredError(Diag(true_covariance), Diag(estimated_covariance))
        o == Rmse(true_covariance, estimated_covariance)
    IN  IF Len(X.rows) = 0 \/ IsZeroDim(true_covariance) THEN [outcome |-> "ValueError"]
        ELSE IF d.outcome # "returned" THEN [outcome |-> d.outcome]
        ELSE [outcome |-> "returned", rmse_diag |-> Sqrt(d.value), rmse_off_diag |-> o.value]

\* compute_shrinkage_rmse(diag_shrinkage, off_diag_shrinkage) on the globals
\* true_covariance and X_train: fit raises ValueError on 0 samples, np.diag
\* on a 0-d true_covariance, mean_squared_error on nan
ComputeShrinkageRmse(true_covariance, X, diag_shrinkage, off_diag_shrinkage) ==
    LET estimated_covariance == Rows(ShrunkCovarianceFit(X, diag_shrinkage))
        d == MeanSquaredError(Diag(true_covariance), Diag(estimated_covariance))
        o == Rmse(true_covariance, estimated_covariance)
    IN  IF Len(X.rows) = 0 \/ IsZeroDim(true_covariance) THEN [outcome |-> "ValueError"]
        ELSE IF d.outcome # "returned" THEN [outcome |-> d.outcome]
        ELSE [outcome |-> "returned", rmse_diag |-> Sqrt(d.value), rmse_off_diag |-> o.value]

\* np.array(flat).reshape(r, c)
ReshapeTo(flat, r, c) == [a \in 1..r |-> [b \in 1..c |-> flat[(a - 1) * c + b]]]

\* the sweep is not running
NoSweep == [pc |-> "idle"]

\* X_train of the sweep: n_features columns
GridSamples == UNION {SamplesOf(n, n_features) : n \in 0..MaxSamples}

\* one pass of the inner loop body: compute_shrinkage_rmse and the two appends
SweepStep ==
    /\ sweep.pc = "loop"
    /\ sweep.i <= GridPoints
    /\ LET r == ComputeShrinkageRmse(sweep.true_covariance, X_train,
                                     Linspace[sweep.i], Linspace[sweep.j])
           last == sweep.j = GridPoints
       IN  sweep' =
             IF r.outcome # "returned"
             THEN [sweep EXCEPT !.pc = r.outcome]
             ELSE [sweep EXCEPT
                     !.rmse_diag_values = Append(@, r.rmse_diag),
                     !.rmse_off_diag_values = Append(@, r.rmse_off_diag),
                     !.i = IF last THEN @ + 1 ELSE @,
                     !.j = IF last THEN 1 ELSE @ + 1]
    /\ UNCHANGED <<numpy_legacy, X_train, diagonal_shrinkage, off_diagonal_shrinkage,
                   covariance_, fit_outcome, emp_cov, shrunk_diag_cov, adaptive,
                   reference, estimate, rmse, rmse_swapped>>

\* after the loops: both lists reshaped to the shape of the grid
Reshape ==
    /\ sweep.pc = "loop"
    /\ sweep.i > GridPoints
    /\ sweep' = [sweep EXCEPT
                   !.pc = "reshaped",
                   !.rmse_diag_values = ReshapeTo(@, GridPoints, GridPoints),
                   !.rmse_off_diag_values = ReshapeTo(@, GridPoints, GridPoints)]
    /\ UNCHANGED <<numpy_legacy, X_train, diagonal_shrinkage, off_diagonal_shrinkage,
                   covariance_, fit_outcome, emp_cov, shrunk_diag_cov, adaptive,
                   reference, estimate, rmse, rmse_swapped>>

----------------------------------------------------------------------------
(* specifications *)

\* doasd_estimator = DOASD(d, o), before any fit
Init ==
    /\ numpy_legacy \in BOOLEAN
    /\ X_train \in SampleMatrices
    /\ diagonal_shrinkage \in DiagonalShrinkages
    /\ off_diagonal_shrinkage \in OffDiagonalShrinkages
    /\ covariance_ = <<>>
    /\ fit_outcome = "none"
    /\ emp_cov = <<>>
    /\ shrunk_diag_cov = <<>>
    /\ adaptive = NoAdaptive
    /\ reference = <<>>
    /\ estimate = <<>>
    /\ rmse = NoRmse
    /\ rmse_swapped = NoRmse
    /\ sweep = NoSweep

Next == Fit

\* one estimator fitted to one sample matrix
Spec == Init /\ [][Next]_vars

NextRefit == Fit \/ GenerateData

\* one estimator fitted again and again to newly generated sample matrices
SpecRefit == Init /\ [][NextRefit]_vars

\* an estimator and the adaptive computation, both given generated data
InitAdaptive ==
    /\ numpy_legacy \in BOOLEAN
    /\ X_train \in GeneratedSamples
    /\ diagonal_shrinkage \in DiagonalShrinkages
    /\ off_diagonal_shrinkage \in OffDiagonalShrinkages
    /\ covariance_ = <<>>
    /\ fit_outcome = "none"
    /\ emp_cov = <<>>
    /\ shrunk_diag_cov = <<>>
    /\ adaptive = NoAdaptive
    /\ reference = <<>>
    /\ estimate = <<>>
    /\ rmse = NoRmse
    /\ rmse_swapped = NoRmse
    /\ sweep = NoSweep

NextAdaptive == ComputeRmseAdaptive \/ Fit

SpecAdaptive == InitAdaptive /\ [][NextAdaptive]_vars

\* the metric on a pair of arrays
InitRmse ==
    /\ numpy_legacy = FALSE
    /\ X_train = [p |-> 1, rows |-> <<>>]
    /\ diagonal_shrinkage = Frac(5, 10)
    /\ off_diagonal_shrinkage = Frac(1, 10)
    /\ covariance_ = <<>>
    /\ fit_outcome = "none"
    /\ emp_cov = <<>>
    /\ shrunk_diag_cov = <<>>
    /\ adaptive = NoAdaptive
    /\ reference \in Arrays
    /\ estimate \in Arrays
    /\ rmse = NoRmse
    /\ rmse_swapped = NoRmse
    /\ sweep = NoSweep

NextRmse == ComputeRmse \/ ComputeRmseSwapped

SpecRmse == InitRmse /\ [][NextRmse]_vars

\* the grid sweep on one sample matrix, true_covariance computed before it
InitGrid ==
    /\ numpy_legacy \in BOOLEAN
    /\ X_train \in GridSamples
    /\ diagonal_shrinkage = Frac(5, 10)
    /\ off_diagonal_shrinkage = Frac(1, 10)
    /\ covariance_ = <<>>
    /\ fit_outcome = "none"
    /\ emp_cov = <<>>
    /\ shrunk_diag_cov = <<>>
    /\ adaptive = NoAdaptive
    /\ reference = <<>>
    /\ estimate = <<>>
    /\ rmse = NoRmse
    /\ rmse_swapped = NoRmse
    /\ sweep = [pc |-> "loop", i |-> 1, j |-> 1,
                true_covariance |-> Rows(NpCov(numpy_legacy, X_train)),
                rmse_diag_values |-> <<>>, rmse_off_diag_values |-> <<>>]

NextGrid == SweepStep \/ Reshape

SpecGrid == InitGrid /\ [][NextGrid]_vars

----------------------------------------------------------------------------
(* Properties *)

Called == fit_outcome # "none"
Returned == fit_outcome = "returned"
Indices(M) == 1..Len(M)

\* M == M.T, entry by entry
IsSymmetric(M) == \A i, j \in Indices(M) : FEq(M[i][j], M[j][i])

IsFiniteMatrix(M) == \A i \in Indices(M) : \A j \in 1..Len(M[i]) : IsFinite(M[i][j])

\* 1 - (1 - d)(1 - o)
CombinedIntensity(d, o) == FSub(One, FMul(FSub(One, d), FSub(One, o)))

\* entry (i, j) of (1 - c) * E + c * diag(diag(E))
SingleStageEntry(E, c, i, j) ==
    IF i = j
    THEN FAdd(FMul(FSub(One, c), E[i][i]), FMul(c, E[i][i]))
    ELSE FMul(FSub(One, c), E[i][j])

\* C1: when fit returns on a symmetric empirical covariance E, every entry of
\* covariance_ equals the entry of the single-stage diagonal-target shrink
\* (1-c)*E + c*diag(diag(E)) with c = 1-(1-d)(1-o).
C1_TwoStageEqualsSingleStage ==
    (Returned /\ IsSymmetric(emp_cov)) =>
        /\ Len(covariance_) = Len(emp_cov)
        /\ \A i, j \in Indices(emp_cov) :
              FEq(covariance_[i][j],
                  SingleStageEntry(emp_cov,
                      CombinedIntensity(diagonal_shrinkage, off_diagonal_shrinkage), i, j))

C1_Witness ==
    /\ Returned /\ IsSymmetric(emp_cov)
    /\ diagonal_shrinkage = Frac(5, 10) /\ off_diagonal_shrinkage = Frac(1, 10)
    /\ emp_cov[1][2] # Zero

KnownE == <<<<Frac(4, 1), Frac(2, 1)>>, <<Frac(2, 1), Frac(9, 1)>>>>
KnownD == <<<<Frac(4, 1), Frac(1, 1)>>, <<Frac(1, 1), Frac(9, 1)>>>>
KnownS == <<<<Frac(4, 1), Frac(9, 10)>>, <<Frac(9, 10), Frac(9, 1)>>>>

\* C2: when fit returns on a finite E, stage 1 keeps the diagonal of E and
\* multiplies every off-diagonal entry by (1-d), stage 2 keeps the diagonal of
\* D and multiplies every off-diagonal entry by (1-o); and the two stages take
\* [[4,2],[2,9]] with d = 0.5, o = 0.1 to [[4,1],[1,9]] and [[4,0.9],[0.9,9]].
C2_StageEntries ==
    /\ (Returned /\ IsFiniteMatrix(emp_cov)) =>
          \A i, j \in Indices(emp_cov) :
              /\ FEq(shrunk_diag_cov[i][j],
                     IF i = j THEN emp_cov[i][i]
                     ELSE FMul(FSub(One, diagonal_shrinkage), emp_cov[i][j]))
              /\ FEq(covariance_[i][j],
                     IF i = j THEN shrunk_diag_cov[i][i]
                     ELSE FMul(FSub(One, off_diagonal_shrinkage), shrunk_diag_cov[i][j]))
    /\ Blend(KnownE, Frac(5, 10)) = KnownD
    /\ Blend(KnownD, Frac(1, 10)) = KnownS

C2_Witness ==
    /\ Returned /\ IsFiniteMatrix(emp_cov)
    /\ diagonal_shrinkage = Frac(5, 10) /\ off_diagonal_shrinkage = Frac(1, 10)
    /\ FLess(emp_cov[1][2], Zero)
    /\ shrunk_diag_cov[1][2] # emp_cov[1][2]
    /\ covariance_[1][2] # shrunk_diag_cov[1][2]

\* the empirical covariance as section 4.1 defines it:
\* C[i][j] = (1/n) * sum over k of (x_k[i] - mean[i]) * (x_k[j] - mean[j])
PopulationCovariance(X) ==
    LET n    == Len(X.rows)
        x    == [k \in 1..n |-> [i \in 1..X.p |-> Frac(X.rows[k][i], 1)]]
        mean == [i \in 1..X.p |-> FDiv(SumSeq([k \in 1..n |-> x[k][i]]), Frac(n, 1))]
    IN  [i \in 1..X.p |->
            [j \in 1..X.p |->
                FDiv(SumSeq([k \in 1..n |->
                         FMul(FSub(x[k][i], mean[i]), FSub(x[k][j], mean[j]))]),
                     Frac(n, 1))]]

\* C3: a fit with both shrinkages 0 on n >= 1 samples returns and stores the
\* empirical covariance normalized by n.
C3_ZeroShrinkageIsPopulationCovariance ==
    (/\ Called
     /\ diagonal_shrinkage = Zero /\ off_diagonal_shrinkage = Zero
     /\ Len(X_train.rows) >= 1) =>
        /\ Returned
        /\ Len(covariance_) = X_train.p
        /\ \A i, j \in 1..X_train.p :
              FEq(covariance_[i][j], PopulationCovariance(X_train)[i][j])

\* C9: a fit on a sample matrix of 0 observations ends in InvalidInputError
\* and stores no covariance_.
C9_EmptySampleIsInvalidInput ==
    (Called /\ Len(X_train.rows) = 0) =>
        (fit_outcome = "InvalidInputError" /\ covariance_ = <<>>)

\* what a new DOASD(d, o) holds in covariance_ after one fit(X)
FreshFitCovariance(d, o, X) ==
    LET E == NpCov(numpy_legacy, X)
    IN  IF IsZeroDim(E) THEN <<>> ELSE Blend(Blend(E, d), o)

\* C10: after every fit call, covariance_ is what a fresh instance with the
\* same two parameters would hold after a single fit on that sample matrix.
C10_RefitEqualsFreshFit ==
    [][Fit => covariance_' =
                 FreshFitCovariance(diagonal_shrinkage, off_diagonal_shrinkage, X_train)]_vars

\* C4: the diag_shrinkage that the adaptive computation blends with is never
\* negative, and is 0 whenever n_samples <= n_features + 1.
C4_DiagShrinkageClamped ==
    adaptive.blended =>
        /\ FLeq(Zero, adaptive.diag_shrinkage)
        /\ (Len(X_train.rows) <= n_features + 1 => adaptive.diag_shrinkage = Zero)

\* C5: on a symmetric E with non-negative diagonal, the off_diag_shrinkage
\* that the adaptive computation blends with lies in [0, 1].
C5_OffDiagShrinkageClamped ==
    (/\ adaptive.blended
     /\ IsSymmetric(adaptive.emp_cov)
     /\ \A i \in Indices(adaptive.emp_cov) : FLeq(Zero, adaptive.emp_cov[i][i])) =>
        /\ FLeq(Zero, adaptive.off_diag_shrinkage)
        /\ FLeq(adaptive.off_diag_shrinkage, One)

\* C6: whenever E is symmetric, the intermediate matrix D and the final
\* matrix S are symmetric, in the fixed-parameter fit and in the adaptive
\* computation alike.
C6_ProducedMatricesSymmetric ==
    /\ (Returned /\ IsSymmetric(emp_cov)) =>
          (IsSymmetric(shrunk_diag_cov) /\ IsSymmetric(covariance_))
    /\ (adaptive.blended /\ IsSymmetric(adaptive.emp_cov)) =>
          (IsSymmetric(adaptive.shrunk_diag_cov) /\ IsSymmetric(adaptive.shrunk_cov))

Shape(M) == <<Len(M), Len(M[1])>>

\* C7: the metric of a matrix against itself is 0, and on two matrices of the
\* same shape the metric has the same value with the arguments exchanged.
C7_RmseZeroOnEqualAndSymmetric ==
    /\ (rmse.outcome # "none" /\ reference = estimate) =>
          rmse = [outcome |-> "returned", value |-> Sqrt(Zero)]
    /\ (/\ rmse.outcome # "none" /\ rmse_swapped.outcome # "none"
        /\ Shape(reference) = Shape(estimate)) =>
          (rmse.outcome = "returned" /\ rmse_swapped = rmse)

C7_Witness ==
    /\ rmse.outcome = "returned" /\ rmse_swapped.outcome = "returned"
    /\ Shape(reference) = Shape(estimate)
    /\ reference # estimate
    /\ rmse.value # Sqrt(Zero)

\* C8: on a reference and an estimate of different shapes the metric ends in
\* an error; it never returns a number.
C8_ShapeMismatchFails ==
    (rmse.outcome # "none" /\ Shape(reference) # Shape(estimate)) =>
        rmse.outcome # "returned"

\* C11: a fit call leaves the sample matrix and the two shrinkage parameters
\* of the instance as they were; of the instance's attributes it writes
\* covariance_ alone.
C11_FitFrame ==
    [][Fit => /\ X_train' = X_train
              /\ diagonal_shrinkage' = diagonal_shrinkage
              /\ off_diagonal_shrinkage' = off_diagonal_shrinkage]_vars

C11_Witness ==
    /\ Returned /\ covariance_ # <<>>
    /\ Len(X_train.rows) = 2 /\ X_train.p = 2
    /\ X_train.rows[1] # X_train.rows[2]
    /\ diagonal_shrinkage # Zero /\ off_diagonal_shrinkage # Zero

HasPositiveDiagonal(M) == \A i \in Indices(M) : FLess(Zero, M[i][i])

\* C12 as stated: with a positive diagonal and d > 0 or o > 0, every diagonal
\* entry of the result is strictly greater than the same entry of E.
C12_DiagonalScaledUp ==
    (/\ Returned /\ IsFiniteMatrix(emp_cov) /\ HasPositiveDiagonal(emp_cov)
     /\ (FLess(Zero, diagonal_shrinkage) \/ FLess(Zero, off_diagonal_shrinkage))) =>
        \A i \in Indices(emp_cov) : FLess(emp_cov[i][i], covariance_[i][i])

\* C12 as amended: fit multiplies every off-diagonal entry of E by the
\* combined factor (1-d)(1-o) and leaves every diagonal entry of E as it is.
C12_OffDiagonalDampedDiagonalKept ==
    (Returned /\ IsFiniteMatrix(emp_cov)) =>
        \A i, j \in Indices(emp_cov) :
            FEq(covariance_[i][j],
                IF i = j THEN emp_cov[i][i]
                ELSE FMul(FMul(FSub(One, diagonal_shrinkage),
                               FSub(One, off_diagonal_shrinkage)),
                          emp_cov[i][j]))

C12_Witness ==
    /\ Returned /\ IsFiniteMatrix(emp_cov) /\ HasPositiveDiagonal(emp_cov)
    /\ FLess(Zero, diagonal_shrinkage) /\ FLess(Zero, off_diagonal_shrinkage)
    /\ FLess(off_diagonal_shrinkage, One)
    /\ emp_cov[1][2] # Zero
    /\ covariance_[1][1] = emp_cov[1][1]

\* the entries of a flat list that the reshape puts in one row agree
RowsConstantFlat(flat) ==
    \A k1, k2 \in 1..Len(flat) :
        ((k1 - 1) \div GridPoints = (k2 - 1) \div GridPoints) => flat[k1] = flat[k2]

\* every row of M is constant
RowsConstant(M) == \A a \in 1..Len(M) : \A b1, b2 \in 1..Len(M[a]) : M[a][b1] = M[a][b2]

====
